---------------------------- MODULE Spec2Model ----------------------------
(***************************************************************************)
(* A model of calculate_E2.py: loadMatrices (basis transformation of the   *)
(* Fock and density matrices), doE2Analysis (the all-pairs donor/acceptor  *)
(* scan) and the script's main block.                                      *)
(*                                                                         *)
(* Numbers.  numpy's float64 values are modelled as exact rationals        *)
(* extended with the IEEE specials: a value is a record [n, d] in lowest   *)
(* terms, d > 0 for a finite number n/d, d = 0 for +inf (n = 1),           *)
(* -inf (n = -1) and NaN (n = 0).  Binary rounding error of float64 is     *)
(* not modelled; division by zero, inf * 0 and NaN comparisons are.        *)
(***************************************************************************)
EXTENDS Integers, Sequences, FiniteSets, TLC

(***************************************************************************)
(* Extended rational arithmetic (float64 as used by numpy scalars).        *)
(***************************************************************************)
Abs(x) == IF x < 0 THEN -x ELSE x

Sign(x) == IF x < 0 THEN -1 ELSE IF x > 0 THEN 1 ELSE 0

RECURSIVE GCD(_, _)
GCD(a, b) == IF b = 0 THEN a ELSE GCD(b, a % b)

\* The finite number n/d (d # 0) in lowest terms with a positive denominator.
Fin(n, d) ==
  LET g == GCD(Abs(n), Abs(d))
  IN  [n |-> Sign(d) * (n \div g), d |-> Abs(d) \div g]

NaN == [n |-> 0, d |-> 0]

Inf(s) == [n |-> s, d |-> 0]

IsFinite(x) == x.d > 0

IsNaN(x) == x.d = 0 /\ x.n = 0

XNeg(x) == [n |-> -x.n, d |-> x.d]

XAdd(x, y) ==
  IF IsNaN(x) \/ IsNaN(y) THEN NaN
  ELSE IF IsFinite(x) /\ IsFinite(y) THEN Fin(x.n * y.d + y.n * x.d, x.d * y.d)
  ELSE IF IsFinite(x) THEN y
  ELSE IF IsFinite(y) THEN x
  ELSE IF x.n = y.n THEN x ELSE NaN

XSub(x, y) == XAdd(x, XNeg(y))

\* (a/b) * (c/d), cancelling across before multiplying.
FinMul(a, b, c, d) ==
  LET g == GCD(Abs(a), d)
      h == GCD(Abs(c), b)
  IN  Fin((a \div g) * (c \div h), (b \div h) * (d \div g))

XMul(x, y) ==
  IF IsNaN(x) \/ IsNaN(y) THEN NaN
  ELSE IF IsFinite(x) /\ IsFinite(y) THEN FinMul(x.n, x.d, y.n, y.d)
  ELSE IF x.n = 0 \/ y.n = 0 THEN NaN
  ELSE Inf(Sign(x.n) * Sign(y.n))

\* x / y on numpy scalars: a zero divisor is +0.0 here (it only arises as the
\* difference of two equal numbers), so x / 0 is +-inf by the sign of x, 0 / 0 is NaN.
XDiv(x, y) ==
  IF IsNaN(x) \/ IsNaN(y) THEN NaN
  ELSE IF IsFinite(x) /\ IsFinite(y)
       THEN IF y.n # 0 THEN FinMul(x.n, x.d, Sign(y.n) * y.d, Abs(y.n))
            ELSE IF x.n = 0 THEN NaN ELSE Inf(Sign(x.n))
  ELSE IF IsFinite(x) THEN Fin(0, 1)
  ELSE IF IsFinite(y) THEN Inf(x.n * (IF y.n < 0 THEN -1 ELSE 1))
  ELSE NaN

\* x < y; every comparison with NaN is false.
XLt(x, y) ==
  IF IsNaN(x) \/ IsNaN(y) THEN FALSE
  ELSE IF IsFinite(x) /\ IsFinite(y) THEN x.n * y.d < y.n * x.d
  ELSE IF IsFinite(x) THEN y.n = 1
  ELSE IF IsFinite(y) THEN x.n = -1
  ELSE x.n < y.n

XGt(x, y) == XLt(y, x)

RECURSIVE Pow10(_)
Pow10(k) == IF k = 0 THEN 1 ELSE 10 * Pow10(k - 1)

\* The integer nearest to a/b (b > 0), ties to the even one (numpy's rint).
RoundHalfEven(a, b) ==
  LET q == a \div b
      r == a - q * b
  IN  IF 2 * r < b THEN q
      ELSE IF 2 * r > b THEN q + 1
      ELSE IF q % 2 = 0 THEN q ELSE q + 1

\* << floor(r * 10^k / d), (r * 10^k) mod d >> for 0 <= r < d, by long division.
RECURSIVE Shift10(_, _, _)
Shift10(r, d, k) ==
  IF k = 0 THEN << 0, r >>
  ELSE LET p == Shift10(r, d, k - 1)
       IN  << 10 * p[1] + (10 * p[2]) \div d, (10 * p[2]) % d >>

\* round(x, ndigits) of a numpy float64: x scaled by 10^ndigits, rounded to the
\* nearest integer (ties to even), scaled back; inf and NaN are returned unchanged.
Round(x, ndigits) ==
  IF IsFinite(x)
  THEN LET whole == x.n \div x.d
           frac  == Shift10(x.n - whole * x.d, x.d, ndigits)
       IN  Fin(whole * Pow10(ndigits) + frac[1] + RoundHalfEven(frac[2], x.d),
               Pow10(ndigits))
  ELSE x

(***************************************************************************)
(* Matrices: a sequence of rows; the code's 0-based M[i, j] is At(M, i, j) *)
(***************************************************************************)
At(M, i, j) == M[i + 1][j + 1]


Dim(M) == Len(M)

(***************************************************************************)
(* doE2Analysis(Fock_matrix, D_matrix, orbital_names, qCT_threshold,       *)
(*              E_threshold)                                               *)
(***************************************************************************)
\* An optional argument: orbital_names = None is [some |-> FALSE, v |-> <<>>].
None == [some |-> FALSE, v |-> <<>>]

Some(v) == [some |-> TRUE, v |-> v]

lowest_donor_occ == Fin(1, 1)

highest_accpt_occ == Fin(1, 1)

HartreeToKcal == Fin(627509, 1000)

titles ==
  << "Donor orbital", "Acceptor orbital", "Donor occupancy",
     "Acceptor occupancy", "Charge transfer (e)", "E2 energy (kcal/mol)" >>

\* The function's locals before the loops.
InitLocals ==
  [ ii_Name     |-> "unknown",
    jj_Name     |-> "unknown",
    qCT         |-> Fin(-1, 1),
    E2          |-> Fin(-1, 1),
    interaction |-> << >>,
    result      |-> << titles >> ]

\* name + ' (' + str(k + 1) + ')'
Label(name, k) == name \o " (" \o ToString(k + 1) \o ")"

\* interaction.append(ii_Name + ' (' + str(i + 1) + ')')
DonorLabel(ii, i, j) == Label(ii, i)

\* Mutant: the acceptor's index is written as str(i + 1).
AcceptorLabel_DonorIndex(jj, i, j) == Label(jj, i)

\* interaction.append(jj_Name + ' (' + str(j + 1) + ')')
AcceptorLabel(jj, i, j) == Label(jj, j)

\* Mutant: non-strict occupancy comparisons.
Qualifies_NonStrict(Dii, Djj) ==
  ~XLt(Dii, lowest_donor_occ) /\ ~XGt(Djj, highest_accpt_occ) /\ ~XGt(Djj, Dii)

\* (Dii > lowest_donor_occ) and (Djj < highest_accpt_occ) and (Djj < Dii)
Qualifies(Dii, Djj) ==
  XGt(Dii, lowest_donor_occ) /\ XLt(Djj, highest_accpt_occ) /\ XLt(Djj, Dii)

\* Mutant: equal orbital energies are special-cased to an energy of 0.
PerturbationEnergy_Guarded(Eii, Ejj, Eij) ==
  IF Eii = Ejj THEN Fin(0, 1)
  ELSE LET ratio == XDiv(Eij, XSub(Eii, Ejj))
       IN  XMul(XMul(XMul(Fin(2, 1), XMul(ratio, ratio)), XSub(Ejj, Eii)),
                Fin(627509, 1000))

\* qCT1 = 2*(Eij/(Eii - Ejj))**2 ; E2 = qCT1*(Ejj - Eii)*627.509
PerturbationEnergy(Eii, Ejj, Eij) ==
  LET ratio == XDiv(Eij, XSub(Eii, Ejj))
      qCT1  == XMul(Fin(2, 1), XMul(ratio, ratio))
  IN  XMul(XMul(qCT1, XSub(Ejj, Eii)), HartreeToKcal)

\* qCT = Dij*Dij/Dii
ChargeTransfer(Dij, Dii) == XDiv(XMul(Dij, Dij), Dii)

\* Mutant: the comparison with the threshold is reversed.
PassesThreshold_Reversed(qCT, E2, qCT_threshold, E_threshold) ==
  XLt(qCT, qCT_threshold)

\* Mutant: E_threshold is applied as a second filter.
PassesThreshold_WithEnergy(qCT, E2, qCT_threshold, E_threshold) ==
  XGt(qCT, qCT_threshold) /\ XGt(E2, E_threshold)

\* if qCT > qCT_threshold: E2 and E_threshold are in scope but not consulted.
PassesThreshold(qCT, E2, qCT_threshold, E_threshold) == XGt(qCT, qCT_threshold)

\* Mutant: the new record is inserted right after the header row.
AppendRecord_InsertFirst(result, interaction) ==
  << Head(result), interaction >> \o Tail(result)

\* result.append(interaction)
AppendRecord(result, interaction) == Append(result, interaction)

\* The statements guarded by `if not i == j', up to the last append.
PairBody(st, i, j, F, D, names, qCT_threshold, E_threshold) ==
  LET Eii   == At(F, i, i)
      Ejj   == At(F, j, j)
      Dii   == At(D, i, i)
      Djj   == At(D, j, j)
      iiN   == IF names.some THEN names.v[i + 1] ELSE st.ii_Name
      jjN   == IF names.some THEN names.v[j + 1] ELSE st.jj_Name
      inter == st.interaction \o
                 << DonorLabel(iiN, i, j), AcceptorLabel(jjN, i, j),
                    Round(Dii, 4), Round(Djj, 4) >>
      named == [st EXCEPT !.ii_Name = iiN, !.jj_Name = jjN, !.interaction = inter]
  IN  IF Qualifies(Dii, Djj)
      THEN LET E2v  == PerturbationEnergy(Eii, Ejj, At(F, i, j))
               qCTv == ChargeTransfer(At(D, i, j), Dii)
               full == inter \o << Round(qCTv, 4), Round(E2v, 2) >>
               calc == [named EXCEPT !.qCT = qCTv, !.E2 = E2v]
           IN  IF PassesThreshold(qCTv, E2v, qCT_threshold, E_threshold)
               THEN [calc EXCEPT !.interaction = full,
                                 !.result = AppendRecord(st.result, full)]
               ELSE calc
      ELSE named

\* Mutant: `interaction = []' is missing.
LoopBody_NoReset(st, i, j, F, D, names, qCT_threshold, E_threshold) ==
  IF i # j
  THEN PairBody(st, i, j, F, D, names, qCT_threshold, E_threshold)
  ELSE st

\* One pass of the inner loop body for (i, j), including `interaction = []'.
LoopBody(st, i, j, F, D, names, qCT_threshold, E_threshold) ==
  IF i # j
  THEN [PairBody(st, i, j, F, D, names, qCT_threshold, E_threshold)
          EXCEPT !.interaction = << >>]
  ELSE st

\* for i in range(n): for j in range(n): the pair that follows (i, j).
Advance(i, j, n) == IF j + 1 < n THEN << i, j + 1 >> ELSE << i + 1, 0 >>

RECURSIVE RunLoops(_, _, _, _, _, _, _, _)
RunLoops(st, i, j, F, D, names, qCT_threshold, E_threshold) ==
  IF i >= Dim(F) THEN st
  ELSE LET nx == Advance(i, j, Dim(F))
       IN  RunLoops(LoopBody(st, i, j, F, D, names, qCT_threshold, E_threshold),
                    nx[1], nx[2], F, D, names, qCT_threshold, E_threshold)

\* The value doE2Analysis returns.
doE2Analysis(F, D, names, qCT_threshold, E_threshold) ==
  RunLoops(InitLocals, 0, 0, F, D, names, qCT_threshold, E_threshold).result

(***************************************************************************)
(* Dense linear algebra (numpy's @, .T and np.linalg.inv), exact.          *)
(***************************************************************************)
Rows(M) == Len(M)

Cols(M) == IF Len(M) = 0 THEN 0 ELSE Len(M[1])

IsSquare(M) == Rows(M) = Cols(M)

Transpose(M) == [c \in 1..Cols(M) |-> [r \in 1..Rows(M) |-> M[r][c]]]

DotFrom(A, B, r, c) ==
  [k \in 0..Cols(A) |->
     IF k = 0 THEN Fin(0, 1) ELSE XMul(A[r][k], B[k][c])]

RECURSIVE SumSeq(_, _)
SumSeq(f, k) == IF k = 0 THEN f[0] ELSE XAdd(SumSeq(f, k - 1), f[k])

\* A @ B, defined when Cols(A) = Rows(B).
MatMul(A, B) ==
  [r \in 1..Rows(A) |->
     [c \in 1..Cols(B) |-> SumSeq(DotFrom(A, B, r, c), Cols(A))]]

\* M without row r and column c.
Minor(M, r, c) ==
  [a \in 1..(Rows(M) - 1) |->
     [b \in 1..(Cols(M) - 1) |->
        M[IF a < r THEN a ELSE a + 1][IF b < c THEN b ELSE b + 1]]]

RECURSIVE Det(_)
RECURSIVE DetExpand(_, _)
\* Laplace expansion along the first row, columns 1..k.
DetExpand(M, k) ==
  IF k = 0 THEN Fin(0, 1)
  ELSE LET term == XMul(M[1][k], Det(Minor(M, 1, k)))
       IN  XAdd(DetExpand(M, k - 1), IF k % 2 = 1 THEN term ELSE XNeg(term))

Det(M) == IF Rows(M) = 0 THEN Fin(1, 1) ELSE DetExpand(M, Cols(M))

\* Mutant: a singular matrix is inverted without an error.
InvRaises_ShapeOnly(M) == ~IsSquare(M)

\* np.linalg.inv raises LinAlgError for a non-square or a singular matrix.
InvRaises(M) == ~IsSquare(M) \/ Det(M).n = 0

\* np.linalg.inv(M) for a square non-singular M: adjugate over determinant.
Inv(M) ==
  LET det == Det(M)
  IN  [r \in 1..Rows(M) |->
         [c \in 1..Cols(M) |->
            LET cof == Det(Minor(M, c, r))
            IN  XDiv(IF (r + c) % 2 = 0 THEN cof ELSE XNeg(cof), det)]]

(***************************************************************************)
(* loadMatrices(Fock_nao_f, sds_nao_f, cplo_2_lho_f, lho_2_nao_f)          *)
(*                                                                         *)
(* A matrix file, after its three skipped header lines, is a table of      *)
(* rows; each row holds the numeric columns and then a label column       *)
(* (the layout line 68 reads the orbital names from).  A file is           *)
(* [exists, num, labels]: num the numeric columns as a matrix.  Files of   *)
(* one data row (which np.loadtxt returns as a 1-D array) are not modelled.*)
(***************************************************************************)
File(num, labels) == [exists |-> TRUE, num |-> num, labels |-> labels]

Missing == [exists |-> FALSE, num |-> << >>, labels |-> << >>]

\* np.loadtxt(f, skiprows=3, usecols=range(n)): the first n columns of every row.
FirstCols(f, n) == [r \in 1..Rows(f.num) |-> [c \in 1..n |-> f.num[r][c]]]

\* The text of a numeric cell read with dtype = 'str'.
CellText(x) ==
  IF x.d = 1 THEN ToString(x.n) ELSE ToString(x.n) \o "/" \o ToString(x.d)

\* np.loadtxt(f, dtype='str', skiprows=3, usecols=n): column n (0-based) of every row.
Column(f, n) ==
  [r \in 1..Rows(f.num) |->
     IF n = Cols(f.num) THEN f.labels[r] ELSE CellText(f.num[r][n + 1])]

Raised(err) ==
  [ok |-> FALSE, err |-> err, Fock_cplo |-> << >>, sds_cplo |-> << >>,
   orb_names |-> << >>]

\* Mutant: the two inverses are multiplied in the other order.
Transformed_OtherOrder(Fock_nao, sds_nao, cplo_2_lho, lho_2_nao, orb_names) ==
  LET nao_2_cplo == MatMul(Inv(cplo_2_lho), Inv(lho_2_nao))
  IN  [ok        |-> TRUE,
       err       |-> "",
       Fock_cplo |-> MatMul(MatMul(Transpose(nao_2_cplo), Fock_nao), nao_2_cplo),
       sds_cplo  |-> MatMul(MatMul(Transpose(nao_2_cplo), sds_nao), nao_2_cplo),
       orb_names |-> orb_names]

\* The congruence transforms and the return statement (lines 70-76).
Transformed(Fock_nao, sds_nao, cplo_2_lho, lho_2_nao, orb_names) ==
  LET nao_2_cplo == MatMul(Inv(lho_2_nao), Inv(cplo_2_lho))
  IN  [ok        |-> TRUE,
       err       |-> "",
       Fock_cplo |-> MatMul(MatMul(Transpose(nao_2_cplo), Fock_nao), nao_2_cplo),
       sds_cplo  |-> MatMul(MatMul(Transpose(nao_2_cplo), sds_nao), nao_2_cplo),
       orb_names |-> orb_names]

\* What loading raises before line 70, "" if nothing: the files are read in the
\* order Fock, CLPO->LHO, LHO->NAO, density; a row with fewer than n columns, or
\* whose label column falls inside range(n), cannot be converted.
LoadError(Fock_nao_f, sds_nao_f, cplo_2_lho_f, lho_2_nao_f, n) ==
  IF ~Fock_nao_f.exists THEN "FileNotFoundError"
  ELSE IF Cols(Fock_nao_f.num) < n THEN "ValueError"
  ELSE IF ~cplo_2_lho_f.exists THEN "FileNotFoundError"
  ELSE IF Cols(cplo_2_lho_f.num) < n THEN "ValueError"
  ELSE IF ~lho_2_nao_f.exists THEN "FileNotFoundError"
  ELSE IF Cols(lho_2_nao_f.num) < n THEN "ValueError"
  ELSE IF ~sds_nao_f.exists THEN "FileNotFoundError"
  ELSE IF Cols(sds_nao_f.num) < n THEN "ValueError"
  ELSE ""

loadMatrices(Fock_nao_f, sds_nao_f, cplo_2_lho_f, lho_2_nao_f) ==
  LET nNOs == Rows(Fock_nao_f.num)
      err  == LoadError(Fock_nao_f, sds_nao_f, cplo_2_lho_f, lho_2_nao_f, nNOs)
      Fock_nao   == FirstCols(Fock_nao_f, nNOs)
      cplo_2_lho == FirstCols(cplo_2_lho_f, nNOs)
      lho_2_nao  == FirstCols(lho_2_nao_f, nNOs)
      sds_nao    == FirstCols(sds_nao_f, nNOs)
      orb_names  == Column(cplo_2_lho_f, nNOs)
  IN  IF err # "" THEN Raised(err)
      ELSE IF InvRaises(lho_2_nao) \/ InvRaises(cplo_2_lho) THEN Raised("LinAlgError")
      ELSE IF Rows(sds_nao) # nNOs THEN Raised("ValueError")
      ELSE Transformed(Fock_nao, sds_nao, cplo_2_lho, lho_2_nao, orb_names)

(***************************************************************************)
(* State.                                                                  *)
(***************************************************************************)
VARIABLES
  \* doE2Analysis: arguments, loop indices, locals
  Fock_matrix, D_matrix, orbital_names, qCT_threshold, E_threshold,
  i, j, ii_Name, jj_Name, qCT, E2, interaction, result,
  pc,          \* "idle", "loop", "done"
  emitted,     \* history: the pair (i, j) of every result.append(interaction)
  \* the script: the four input files, loadMatrices' return value, the output
  Fock_nao_f, sds_nao_f, cplo_2_lho_f, lho_2_nao_f,
  Fock_CPLO, SDS_CPLO, ORB_NAMES,
  main_result,
  output_file, \* [created, table]
  analysed,    \* doE2Analysis has been called by the script
  exit_error,  \* "" or the exception that ended the script
  mpc          \* "idle", "load", "analyse", "write", "finished", "aborted"

analysis_vars ==
  << Fock_matrix, D_matrix, orbital_names, qCT_threshold, E_threshold,
     i, j, ii_Name, jj_Name, qCT, E2, interaction, result, pc, emitted >>

main_vars ==
  << Fock_nao_f, sds_nao_f, cplo_2_lho_f, lho_2_nao_f, Fock_CPLO, SDS_CPLO,
     ORB_NAMES, main_result, output_file, analysed, exit_error, mpc >>

vars == << analysis_vars, main_vars >>

(***************************************************************************)
(* Inputs of doE2Analysis.                                                 *)
(***************************************************************************)
\* Largest number of orbitals.
MaxN == 3

\* An orbital's occupancy (density diagonal) and energy (Fock diagonal, Hartree):
\* a donor, an acceptor above it, an acceptor degenerate with the donor, and an
\* orbital of occupancy exactly 1.0.
OrbitalKinds ==
  { [occ |-> Fin(198, 100), energy |-> Fin(-50, 100)],
    [occ |-> Fin(2, 100),   energy |-> Fin(-30, 100)],
    [occ |-> Fin(2, 100),   energy |-> Fin(-50, 100)],
    [occ |-> Fin(100, 100), energy |-> Fin(-30, 100)] }

\* Off-diagonal density elements 0.1 and 0.15, laid out by distance from the
\* diagonal ("graded", symmetric) or by triangle ("skewed", not symmetric).
DensityPatterns == { "graded", "skewed" }

OffDiagonal(pattern, r, c) ==
  IF pattern = "graded"
  THEN IF r - c = 1 \/ c - r = 1 THEN Fin(10, 100) ELSE Fin(15, 100)
  ELSE IF r < c THEN Fin(15, 100) ELSE Fin(10, 100)

\* Off-diagonal Fock element.
Coupling == Fin(2, 100)

FockOf(kinds) ==
  [r \in 1..Len(kinds) |-> [c \in 1..Len(kinds) |->
     IF r = c THEN kinds[r].energy ELSE Coupling]]

DensityOf(kinds, pattern) ==
  [r \in 1..Len(kinds) |-> [c \in 1..Len(kinds) |->
     IF r = c THEN kinds[r].occ ELSE OffDiagonal(pattern, r, c)]]

\* 0.001, 0.01, and 1/198 = 0.1^2 / 1.98, a threshold some pair's qCT equals.
Thresholds == { Fin(1, 1000), Fin(1, 198), Fin(1, 100) }

EThresholds == { Fin(1, 10), Fin(5, 1) }

OrbitalLabels == << "LP(A)", "BD*(B)", "BD(C)", "RY(D)", "CR(E)" >>

Locals ==
  [ii_Name |-> ii_Name, jj_Name |-> jj_Name, qCT |-> qCT, E2 |-> E2,
   interaction |-> interaction, result |-> result]

MainIdle ==
  /\ Fock_nao_f = Missing /\ sds_nao_f = Missing
  /\ cplo_2_lho_f = Missing /\ lho_2_nao_f = Missing
  /\ Fock_CPLO = << >> /\ SDS_CPLO = << >> /\ ORB_NAMES = << >>
  /\ main_result = << >>
  /\ output_file = [created |-> FALSE, table |-> << >>]
  /\ analysed = FALSE
  /\ exit_error = ""
  /\ mpc = "idle"

\* doE2Analysis is called on any matrices of one dimension n, with or without names.
Init ==
  /\ \E n \in 1..MaxN : \E kinds \in [1..n -> OrbitalKinds] :
       /\ Fock_matrix = FockOf(kinds)
       /\ D_matrix \in { DensityOf(kinds, p) : p \in DensityPatterns }
       /\ orbital_names \in { None, Some(SubSeq(OrbitalLabels, 1, n)) }
  /\ qCT_threshold \in Thresholds
  /\ E_threshold \in EThresholds
  /\ i = 0 /\ j = 0
  /\ ii_Name = InitLocals.ii_Name /\ jj_Name = InitLocals.jj_Name
  /\ qCT = InitLocals.qCT /\ E2 = InitLocals.E2
  /\ interaction = InitLocals.interaction /\ result = InitLocals.result
  /\ pc = "loop"
  /\ emitted = << >>
  /\ MainIdle

\* One pass of the inner loop body, then the loops' advance.
LoopStep ==
  /\ pc = "loop"
  /\ i < Dim(Fock_matrix)
  /\ LET s  == LoopBody(Locals, i, j, Fock_matrix, D_matrix, orbital_names,
                        qCT_threshold, E_threshold)
         nx == Advance(i, j, Dim(Fock_matrix))
     IN  /\ ii_Name' = s.ii_Name /\ jj_Name' = s.jj_Name
         /\ qCT' = s.qCT /\ E2' = s.E2
         /\ interaction' = s.interaction /\ result' = s.result
         /\ emitted' = IF Len(s.result) > Len(result)
                       THEN Append(emitted, << i, j >>) ELSE emitted
         /\ i' = nx[1] /\ j' = nx[2]
  /\ UNCHANGED << Fock_matrix, D_matrix, orbital_names, qCT_threshold,
                  E_threshold, pc, main_vars >>

\* return result
Return ==
  /\ pc = "loop"
  /\ i >= Dim(Fock_matrix)
  /\ pc' = "done"
  /\ UNCHANGED << Fock_matrix, D_matrix, orbital_names, qCT_threshold,
                  E_threshold, i, j, ii_Name, jj_Name, qCT, E2, interaction,
                  result, emitted, main_vars >>

Next == LoopStep \/ Return

Spec == Init /\ [][Next]_vars

(***************************************************************************)
(* The script (the __main__ block): loadMatrices, doE2Analysis with the    *)
(* thresholds of line 147, tabulate, write.                                *)
(***************************************************************************)
Ints(M) == [r \in 1..Len(M) |-> [c \in 1..Len(M[r]) |-> Fin(M[r][c], 1)]]

\* Transformation matrices of two orbitals: every 0/1 matrix (singular ones
\* included) and two of determinant 2, whose inverses are not integral.
TransformMatrices ==
  { Ints(<< << a, b >>, << c, d >> >>) : a \in {0, 1}, b \in {0, 1}, c \in {0, 1}, d \in {0, 1} }
    \cup { Ints(<< << 2, 0 >>, << 0, 1 >> >>), Ints(<< << 1, 1 >>, << -1, 1 >> >>) }

TwoLabels == SubSeq(OrbitalLabels, 1, 2)

Identity2 == Ints(<< << 1, 0 >>, << 0, 1 >> >>)

\* Files whose shape is not 2 x 2: a further numeric column, a further row
\* (with its label), a single numeric column.
Wide(M) == File([r \in 1..Len(M) |-> Append(M[r], Fin(1, 1))], TwoLabels)

Tall(M) == File(Append(M, M[1]), Append(TwoLabels, OrbitalLabels[3]))

Narrow(M) == File([r \in 1..Len(M) |-> << M[r][1] >>], TwoLabels)

Misshapen(M) == { Wide(M), Tall(M), Narrow(M), Missing }

\* The Fock matrix of two orbitals 0 and 1 as the external program prints it,
\* and one that is not symmetric.
FockFiles ==
  { File(Ints(<< << -5, 2 >>, << 1, -3 >> >>), TwoLabels),
    File(<< << Fin(-50, 100), Fin(2, 100) >>, << Fin(2, 100), Fin(-30, 100) >> >>,
         TwoLabels) }
    \cup Misshapen(Ints(<< << -5, 1 >>, << 1, -3 >> >>))

DensityFiles ==
  { File(Ints(<< << 2, 1 >>, << 3, 0 >> >>), TwoLabels) }
    \cup { File(<< << Fin(198, 100), d >>, << d, Fin(2, 100) >> >>, TwoLabels) :
             d \in { Fin(10, 100), Fin(15, 100) } }
    \cup Misshapen(Ints(<< << 2, 1 >>, << 1, 0 >> >>))

TransformFiles ==
  { File(M, TwoLabels) : M \in TransformMatrices } \cup Misshapen(Identity2)

AnalysisIdle ==
  /\ Fock_matrix = << >> /\ D_matrix = << >> /\ orbital_names = None
  /\ qCT_threshold = Fin(0, 1) /\ E_threshold = Fin(0, 1)
  /\ i = 0 /\ j = 0
  /\ ii_Name = InitLocals.ii_Name /\ jj_Name = InitLocals.jj_Name
  /\ qCT = InitLocals.qCT /\ E2 = InitLocals.E2
  /\ interaction = << >> /\ result = << >>
  /\ pc = "idle"
  /\ emitted = << >>

InitMain ==
  /\ Fock_nao_f \in FockFiles
  /\ sds_nao_f \in DensityFiles
  /\ cplo_2_lho_f \in TransformFiles
  /\ lho_2_nao_f \in TransformFiles
  /\ Fock_CPLO = << >> /\ SDS_CPLO = << >> /\ ORB_NAMES = << >>
  /\ main_result = << >>
  /\ output_file = [created |-> FALSE, table |-> << >>]
  /\ analysed = FALSE
  /\ exit_error = ""
  /\ mpc = "load"
  /\ AnalysisIdle

Loaded == loadMatrices(Fock_nao_f, sds_nao_f, cplo_2_lho_f, lho_2_nao_f)

\* loadMatrices returns (line 139).
LoadReturns ==
  /\ mpc = "load"
  /\ Loaded.ok
  /\ Fock_CPLO' = Loaded.Fock_cplo
  /\ SDS_CPLO' = Loaded.sds_cplo
  /\ ORB_NAMES' = Loaded.orb_names
  /\ mpc' = "analyse"
  /\ UNCHANGED << Fock_nao_f, sds_nao_f, cplo_2_lho_f, lho_2_nao_f, main_result,
                  output_file, analysed, exit_error, analysis_vars >>

\* except FileNotFoundError: print the error, exit(-1).
LoadFileNotFound ==
  /\ mpc = "load"
  /\ ~Loaded.ok /\ Loaded.err = "FileNotFoundError"
  /\ exit_error' = Loaded.err
  /\ mpc' = "aborted"
  /\ UNCHANGED << Fock_nao_f, sds_nao_f, cplo_2_lho_f, lho_2_nao_f, Fock_CPLO,
                  SDS_CPLO, ORB_NAMES, main_result, output_file, analysed,
                  analysis_vars >>

\* Any other exception is not caught: the script ends with its traceback.
LoadRaises ==
  /\ mpc = "load"
  /\ ~Loaded.ok /\ Loaded.err # "FileNotFoundError"
  /\ exit_error' = Loaded.err
  /\ mpc' = "aborted"
  /\ UNCHANGED << Fock_nao_f, sds_nao_f, cplo_2_lho_f, lho_2_nao_f, Fock_CPLO,
                  SDS_CPLO, ORB_NAMES, main_result, output_file, analysed,
                  analysis_vars >>

\* result = doE2Analysis(..., qCT_threshold = 0.01, E_threshold = 0.1)
Analyse ==
  /\ mpc = "analyse"
  /\ main_result' = doE2Analysis(Fock_CPLO, SDS_CPLO, Some(ORB_NAMES),
                                 Fin(1, 100), Fin(1, 10))
  /\ analysed' = TRUE
  /\ mpc' = "write"
  /\ UNCHANGED << Fock_nao_f, sds_nao_f, cplo_2_lho_f, lho_2_nao_f, Fock_CPLO,
                  SDS_CPLO, ORB_NAMES, output_file, exit_error, analysis_vars >>

\* tabulate(result, headers = 'firstrow', ...): the first row is the header.
Tabulate(rows) == [headers |-> Head(rows), body |-> Tail(rows)]

\* with open(args.output_file, 'w') as f: f.write(result_table)
WriteOutput ==
  /\ mpc = "write"
  /\ output_file' = [created |-> TRUE, table |-> Tabulate(main_result)]
  /\ mpc' = "finished"
  /\ UNCHANGED << Fock_nao_f, sds_nao_f, cplo_2_lho_f, lho_2_nao_f, Fock_CPLO,
                  SDS_CPLO, ORB_NAMES, main_result, analysed, exit_error,
                  analysis_vars >>

NextMain == LoadReturns \/ LoadFileNotFound \/ LoadRaises \/ Analyse \/ WriteOutput

SpecMain == InitMain /\ [][NextMain]_vars

(***************************************************************************)
(* Properties of doE2Analysis (specification Spec).                        *)
(***************************************************************************)
N == Dim(Fock_matrix)

Orbitals == 0..(N - 1)

\* (a, b) comes before (c, d) in row-major enumeration.
LexLt(a, b, c, d) == a < c \/ (a = c /\ b < d)

\* The loops have completed the pass for (a, b).
Processed(a, b) == pc \in { "loop", "done" } /\ LexLt(a, b, i, j)

\* How many records were appended for (a, b).
Count(a, b) == Cardinality({ k \in 1..Len(emitted) : emitted[k] = << a, b >> })

\* x < y for finite rationals, by cross-multiplication.
Less(x, y) == x.n * y.d < y.n * x.d

One == [n |-> 1, d |-> 1]

\* density[a,b]^2 / density[a,a] > t, for a positive density[a,a].
ChargeExceeds(a, b, t) ==
  LET Dab == At(D_matrix, a, b)
      Daa == At(D_matrix, a, a)
  IN  Dab.n * Dab.n * Daa.d * t.d > t.n * Dab.d * Dab.d * Daa.n

OccupanciesQualify(a, b) ==
  /\ Less(One, At(D_matrix, a, a))
  /\ Less(At(D_matrix, b, b), One)
  /\ Less(At(D_matrix, b, b), At(D_matrix, a, a))

\* C1: a record is emitted for the ordered pair (a, b) exactly when a # b,
\* density[a,a] > 1, density[b,b] < 1, density[b,b] < density[a,a] and
\* density[a,b]^2 / density[a,a] > qCT_threshold, all strictly, and then exactly
\* once; a qualifying pair with Dij = 0.1 and Dii = 1.98 gives no record at
\* threshold 0.01 and exactly one at threshold 0.001.
C1_EmitIffQualifies ==
  \A a \in Orbitals : \A b \in Orbitals :
    Processed(a, b) =>
      /\ Count(a, b) =
           (IF a # b /\ OccupanciesQualify(a, b) /\ ChargeExceeds(a, b, qCT_threshold)
            THEN 1 ELSE 0)
      /\ ( /\ a # b
           /\ At(D_matrix, a, a) = Fin(198, 100)
           /\ At(D_matrix, a, b) = Fin(10, 100)
           /\ Less(At(D_matrix, b, b), One) )
         => /\ qCT_threshold = Fin(1, 100) => Count(a, b) = 0
            /\ qCT_threshold = Fin(1, 1000) => Count(a, b) = 1

\* The scenario of the specification: two orbitals, density [[1.98, 0.1], [0.1, 0.02]],
\* threshold 0.001, finished with the single record of the pair (0, 1).
C1_Witness ==
  /\ pc = "done"
  /\ D_matrix = << << Fin(198, 100), Fin(10, 100) >>, << Fin(10, 100), Fin(2, 100) >> >>
  /\ qCT_threshold = Fin(1, 1000)
  /\ emitted = << << 0, 1 >> >>
  /\ Len(result) = 2

NameOf(a) == IF orbital_names.some THEN orbital_names.v[a + 1] ELSE "unknown"

\* C2: the records appear in row-major (i, j) order: the k-th record is the
\* record of the k-th appended pair, and each appended pair is strictly
\* lexicographically greater than the one before it.
C2_RowMajorOrder ==
  pc \in { "loop", "done" } =>
    /\ Len(result) = Len(emitted) + 1
    /\ \A k \in 1..Len(emitted) :
         /\ result[k + 1][1] = Label(NameOf(emitted[k][1]), emitted[k][1])
         /\ result[k + 1][2] = Label(NameOf(emitted[k][2]), emitted[k][2])
    /\ \A k \in 1..(Len(emitted) - 1) :
         LexLt(emitted[k][1], emitted[k][2], emitted[k + 1][1], emitted[k + 1][2])

\* A finished run with at least two records.
C2_Witness == pc = "done" /\ Len(emitted) >= 2 /\ Len(result) = Len(emitted) + 1

\* C3: no record has its donor index equal to its acceptor index, and with a
\* single orbital the function returns the header row alone.
C3_NoSelfInteraction ==
  /\ \A k \in 1..Len(emitted) : emitted[k][1] # emitted[k][2]
  /\ pc \in { "loop", "done" } =>
       \A k \in 2..Len(result) : result[k][1] # result[k][2]
  /\ (pc = "done" /\ N = 1) => result = << titles >>

\* A finished run on a single orbital; it passed through the pair (0, 0).
C3_Witness == pc = "done" /\ N = 1 /\ i = 1 /\ result = << titles >>

RECURSIVE IsSubsequence(_, _)
\* s can be obtained from t by deleting elements.
IsSubsequence(s, t) ==
  IF s = << >> THEN TRUE
  ELSE IF t = << >> THEN FALSE
  ELSE IF Head(s) = Head(t) THEN IsSubsequence(Tail(s), Tail(t))
  ELSE IsSubsequence(s, Tail(t))

Records(res) == Tail(res)

ThresholdLeq(t1, t2) == t1.n * t2.d <= t2.n * t1.d

\* C4: for the same matrices, the records returned with a threshold t2 are a
\* subsequence (same order, same contents) of those returned with any t1 <= t2
\* (the run's own threshold against every other one, in both directions).
C4_ThresholdMonotone ==
  pc = "done" =>
    \A t2 \in Thresholds \ { qCT_threshold } :
      LET other == doE2Analysis(Fock_matrix, D_matrix, orbital_names, t2, E_threshold)
      IN  /\ Head(other) = Head(result)
          /\ ThresholdLeq(qCT_threshold, t2) =>
               IsSubsequence(Records(other), Records(result))
          /\ ThresholdLeq(t2, qCT_threshold) =>
               IsSubsequence(Records(result), Records(other))

\* A finished run that returned two records where a higher threshold keeps one.
C4_Witness ==
  /\ pc = "done"
  /\ Len(result) = 3
  /\ \E t2 \in Thresholds :
       /\ ThresholdLeq(qCT_threshold, t2)
       /\ Len(doE2Analysis(Fock_matrix, D_matrix, orbital_names, t2, E_threshold)) = 2

\* The pair (a, b) passes the occupancy tests and has equal orbital energies.
Degenerate(a, b) ==
  /\ a # b
  /\ OccupanciesQualify(a, b)
  /\ At(Fock_matrix, a, a) = At(Fock_matrix, b, b)

\* C7: a pair that passes the occupancy tests and has equal orbital energies
\* is not dropped for that reason (it is emitted exactly when its qCT exceeds
\* the threshold, like any other pair), and the E2 stored in its record is
\* never a finite number.
C7_DegenerateEnergyPropagates ==
  \A a \in Orbitals : \A b \in Orbitals :
    (Processed(a, b) /\ Degenerate(a, b)) =>
      /\ Count(a, b) = (IF ChargeExceeds(a, b, qCT_threshold) THEN 1 ELSE 0)
      /\ \A k \in 1..Len(emitted) :
           emitted[k] = << a, b >> =>
             /\ Len(result[k + 1]) = 6
             /\ ~IsFinite(result[k + 1][6])

\* A finished run whose first record belongs to a degenerate pair and holds NaN.
C7_Witness ==
  /\ pc = "done"
  /\ Len(emitted) >= 1
  /\ Degenerate(emitted[1][1], emitted[1][2])
  /\ result[2][6] = NaN

\* C8: the value returned does not depend on E_threshold: it is the value
\* returned for the same other arguments with any other E_threshold.
C8_EnergyThresholdIgnored ==
  pc = "done" =>
    \A et \in EThresholds \ { E_threshold } :
      doE2Analysis(Fock_matrix, D_matrix, orbital_names, qCT_threshold, et) = result

\* A finished run with a record whose E2 lies between two energy thresholds.
C8_Witness ==
  /\ pc = "done"
  /\ \E k \in 2..Len(result) : \E lo \in EThresholds : \E hi \in EThresholds :
       /\ XLt(lo, result[k][6]) /\ XLt(result[k][6], hi)
       /\ E_threshold = hi

\* The qCT and E2 of the pair (a, b), from the matrices.
ExpectedCharge(a, b) ==
  XDiv(XMul(At(D_matrix, a, b), At(D_matrix, a, b)), At(D_matrix, a, a))

ExpectedEnergy(a, b) ==
  IF At(Fock_matrix, a, a) = At(Fock_matrix, b, b) THEN NaN
  ELSE XDiv(XMul(XMul(Fin(2, 1), XMul(At(Fock_matrix, a, b), At(Fock_matrix, a, b))),
                 Fin(627509, 1000)),
            XSub(At(Fock_matrix, b, b), At(Fock_matrix, a, a)))

\* C10: the first element of the result is the header row; every later
\* element has exactly 6 fields, all of its own pair (a, b): the two labels
\* with the 1-based indices ("unknown" without names), the two occupancies,
\* the pair's qCT and E2 (rounded to 4, 4, 4 and 2 decimals as stored); between
\* passes of the loop no partial fields are left in `interaction'.
C10_RecordsWellFormed ==
  pc \in { "loop", "done" } =>
    /\ Len(result) = Len(emitted) + 1
    /\ result[1] = titles
    /\ Len(titles) = 6
    /\ interaction = << >>
    /\ \A k \in 1..Len(emitted) :
         LET a == emitted[k][1]
             b == emitted[k][2]
             r == result[k + 1]
         IN  /\ Len(r) = 6
             /\ r[1] = NameOf(a) \o " (" \o ToString(a + 1) \o ")"
             /\ r[2] = NameOf(b) \o " (" \o ToString(b + 1) \o ")"
             /\ r[3] = Round(At(D_matrix, a, a), 4)
             /\ r[4] = Round(At(D_matrix, b, b), 4)
             /\ r[5] = Round(ExpectedCharge(a, b), 4)
             /\ r[6] = Round(ExpectedEnergy(a, b), 2)

\* A finished run without names whose first record comes after rejected pairs.
C10_Witness ==
  /\ pc = "done"
  /\ ~orbital_names.some
  /\ Len(emitted) >= 1
  /\ emitted[1] = << 1, 2 >>
  /\ result[2][1] = "unknown (2)"
  /\ result[2][2] = "unknown (3)"

(***************************************************************************)
(* Properties of the script and of loadMatrices (specification SpecMain).  *)
(***************************************************************************)
InputFiles == { Fock_nao_f, sds_nao_f, cplo_2_lho_f, lho_2_nao_f }

\* The number of orbitals: the rows of the Fock matrix file.
NFock == Rows(Fock_nao_f.num)

\* Every file is there and is NFock x NFock (plus its label column).
ShapesAgree ==
  \A f \in InputFiles : f.exists /\ Rows(f.num) = NFock /\ Cols(f.num) = NFock

\* Some file that is there has another number of rows or of columns than NFock.
ShapesDisagree ==
  /\ Fock_nao_f.exists
  /\ \E f \in InputFiles : f.exists /\ (Rows(f.num) # NFock \/ Cols(f.num) # NFock)

\* A 2 x 2 matrix of determinant 0.
Singular2(M) == XMul(M[1][1], M[2][2]) = XMul(M[1][2], M[2][1])

SingularTransform ==
  /\ ShapesAgree
  /\ NFock = 2
  /\ Singular2(cplo_2_lho_f.num) \/ Singular2(lho_2_nao_f.num)

LoadDone == mpc \in { "analyse", "write", "finished", "aborted" }

C6_ShapeMismatchAborts ==
  (ShapesDisagree /\ LoadDone) => (mpc = "aborted" /\ ~analysed /\ ~output_file.created)

\* The source matrices as loaded, and the product xform1 @ xform2.
SourceFock == FirstCols(Fock_nao_f, NFock)

SourceDensity == FirstCols(sds_nao_f, NFock)

BothTransforms == MatMul(cplo_2_lho_f.num, lho_2_nao_f.num)

BackTransformed(M) == MatMul(MatMul(Transpose(BothTransforms), M), BothTransforms)

\* C9: with files of one dimension and invertible transformation matrices,
\* loadMatrices returns matrices of that dimension which the congruence with
\* xform1 @ xform2 = inverse(inverse(xform2) @ inverse(xform1)) takes back to
\* the source matrices, and the labels unchanged; with identity transformation
\* matrices it returns the source matrices.
C9_CongruenceTransform ==
  (ShapesAgree /\ mpc \in { "analyse", "write", "finished" }) =>
    /\ Rows(Fock_CPLO) = NFock /\ Cols(Fock_CPLO) = NFock
    /\ Rows(SDS_CPLO) = NFock /\ Cols(SDS_CPLO) = NFock
    /\ BackTransformed(Fock_CPLO) = SourceFock
    /\ BackTransformed(SDS_CPLO) = SourceDensity
    /\ ORB_NAMES = cplo_2_lho_f.labels
    /\ (cplo_2_lho_f.num = Identity2 /\ lho_2_nao_f.num = Identity2) =>
         (Fock_CPLO = Fock_nao_f.num /\ SDS_CPLO = sds_nao_f.num)

\* Loaded with two transformation matrices that do not commute, one of them of
\* determinant 2, and a Fock matrix that is not symmetric.
C9_Witness ==
  /\ mpc = "finished"
  /\ ShapesAgree
  /\ cplo_2_lho_f.num = Ints(<< << 1, 1 >>, << 0, 1 >> >>)
  /\ lho_2_nao_f.num = Ints(<< << 2, 0 >>, << 0, 1 >> >>)
  /\ Fock_nao_f.num = Ints(<< << -5, 2 >>, << 1, -3 >> >>)
  /\ Fock_CPLO # Fock_nao_f.num

=============================================================================
